---- MODULE Spec2Model ----
(***************************************************************************)
(* Model of the retrieval engine of backend/rag.py: the chunker            *)
(* (chunk_text), the two document pools of RAGEngine, ingest_report,       *)
(* _retrieve_from_pool and answer.                                         *)
(*                                                                         *)
(* A text is a sequence of characters; a character is a one-element string *)
(* token, with "CR" and "LF" standing for '\r' and '\n'.  A vector is a    *)
(* pair of integers in fixed point: a unit vector has length Unit.         *)
(***************************************************************************)
EXTENDS Integers, Sequences, FiniteSets, TLC

VARIABLES
    \* RAGEngine fields (rag.py 38-46)
    base_docs, base_embeddings, report_docs, report_embeddings,
    \* uuid.uuid4(): the number of identifiers handed out so far
    uuid_next,
    \* number of ingest_report calls started
    n_uploads,
    \* locals of the ingest_report call running on each ingest thread
    ing,
    \* locals of the answer call running on each query thread
    ans,
    \* report ids whose ingest_report call raised (history)
    failed_ids,
    \* chunk_text run on its own: arguments, loop locals, position, result
    c_text, c_max_chars, c_overlap, c_start, c_end, c_pc, c_result,
    \* _retrieve_from_pool run on its own: arguments, position, result
    p_docs, p_embeddings, p_query_vec, p_top_k, p_filter, p_pc, p_result

engine_vars == <<base_docs, base_embeddings, report_docs, report_embeddings,
                 uuid_next, n_uploads, ing, ans, failed_ids>>
chunk_vars == <<c_text, c_max_chars, c_overlap, c_start, c_end, c_pc, c_result>>
pool_vars == <<p_docs, p_embeddings, p_query_vec, p_top_k, p_filter, p_pc, p_result>>
vars == <<engine_vars, chunk_vars, pool_vars>>

(***************************************************************************)
(* Bounds of the model.                                                    *)
(***************************************************************************)
\* longest text given to chunk_text when it is run on its own
MaxLen == 4
\* largest max_chars given to chunk_text when it is run on its own
MaxChars == 3
\* most ingest_report calls in one behaviour of the engine
MaxUploads == 2
\* most documents in a pool given to _retrieve_from_pool run on its own
MaxPool == 3
\* largest top_k given to _retrieve_from_pool run on its own
MaxTopK == 3

(***************************************************************************)
(* Python values.                                                          *)
(***************************************************************************)
None == "<None>"

\* truth value of an Optional[str]: None and "" are falsy
Truthy(v) == v # None /\ v # ""

\* ceil(a / b) for a >= 0 and b > 0
CeilDiv(a, b) == (a + b - 1) \div b

Min(a, b) == IF a < b THEN a ELSE b
Max(a, b) == IF a > b THEN a ELSE b

\* s[i:j] for a list or str s, with Python's handling of negative and
\* out-of-range indices
PySlice(s, i, j) ==
    LET n  == Len(s)
        lo == IF i < 0 THEN Max(n + i, 0) ELSE Min(i, n)
        hi == IF j < 0 THEN Max(n + j, 0) ELSE Min(j, n)
    IN  IF lo < hi THEN SubSeq(s, lo + 1, hi) ELSE <<>>

\* dict.get(key): None when the key is absent
Get(doc, key) == IF key \in DOMAIN doc THEN doc[key] ELSE None

\* str.strip() removes these from both ends
Whitespace == {" ", "CR", "LF"}

Strip(s) ==
    LET keep == {i \in 1..Len(s) : s[i] \notin Whitespace}
    IN  IF keep = {} THEN <<>>
        ELSE LET first == CHOOSE i \in keep : \A j \in keep : i <= j
                 last  == CHOOSE i \in keep : \A j \in keep : j <= i
             IN  SubSeq(s, first, last)

\* text.replace("\r\n", "\n"): a CR directly followed by LF is removed
ReplaceCRLF(text) ==
    LET drop == {i \in 1..Len(text) :
                    text[i] = "CR" /\ i < Len(text) /\ text[i + 1] = "LF"}
        IsKept(i) == i \notin drop
        idx == SelectSeq([i \in 1..Len(text) |-> i], IsKept)
    IN  [k \in 1..Len(idx) |-> text[idx[k]]]

(***************************************************************************)
(* chunk_text (rag.py 19-32).                                              *)
(***************************************************************************)
\* line 26
ChunkEnd(start, max_chars, length) == Min(start + max_chars, length)

\* the mutant: the next window starts where this one ended
NextStartNoOverlap(end, overlap) == end

\* line 31
NextStart(end, overlap) == end - overlap

\* lines 25-31, from the loop test on; chunks is the list built so far
RECURSIVE ChunkLoop(_, _, _, _, _)
ChunkLoop(text, start, max_chars, overlap, chunks) ==
    IF ~(start < Len(text)) THEN chunks
    ELSE LET end     == ChunkEnd(start, max_chars, Len(text))
             chunk   == PySlice(text, start, end)
             chunks2 == Append(chunks, Strip(chunk))
         IN  IF end = Len(text) THEN chunks2
             ELSE ChunkLoop(text, NextStart(end, overlap), max_chars, overlap, chunks2)

NonEmpty(c) == c # <<>>

\* the value chunk_text returns, for arguments on which its loop ends
chunk_text(text, max_chars, overlap) ==
    SelectSeq(ChunkLoop(ReplaceCRLF(text), 0, max_chars, overlap, <<>>), NonEmpty)

(***************************************************************************)
(* chunk_text run on its own, one step per loop test and per loop body.    *)
(* The loop never reads the list chunks it appends to, so the steps carry  *)
(* start and end only and the list is built at the return.  With overlap   *)
(* above max_chars start runs below zero without bound; the calls drawn    *)
(* here stop at overlap = max_chars.                                       *)
(***************************************************************************)
Alphabet == {"a", "CR", "LF"}

RECURSIVE TextsUpTo(_)
TextsUpTo(n) ==
    IF n = 0 THEN {<<>>}
    ELSE LET shorter == TextsUpTo(n - 1)
         IN  shorter \cup {Append(t, ch) : t \in {s \in shorter : Len(s) = n - 1},
                                           ch \in Alphabet}

EngineIdle ==
    /\ base_docs = <<>> /\ base_embeddings = <<>>
    /\ report_docs = <<>> /\ report_embeddings = <<>>
    /\ uuid_next = 0 /\ n_uploads = 0
    /\ ing = <<>> /\ ans = <<>> /\ failed_ids = {}

ChunkIdle ==
    /\ c_text = <<>> /\ c_max_chars = 0 /\ c_overlap = 0
    /\ c_start = 0 /\ c_end = 0 /\ c_pc = "off" /\ c_result = <<>>

PoolIdle ==
    /\ p_docs = <<>> /\ p_embeddings = <<>> /\ p_query_vec = <<0, 0>>
    /\ p_top_k = 0 /\ p_filter = None /\ p_pc = "off" /\ p_result = <<>>

\* lines 19-24: a call, with any text and 0 <= overlap <= max_chars
ChunkInit ==
    /\ c_text \in TextsUpTo(MaxLen)
    /\ c_max_chars \in 0..MaxChars
    /\ c_overlap \in 0..c_max_chars
    /\ c_start = 0
    /\ c_end = 0
    /\ c_pc = "while"
    /\ c_result = <<>>
    /\ EngineIdle
    /\ PoolIdle

\* lines 25-28: the loop test and the cut of one window
ChunkWhile ==
    /\ c_pc = "while"
    /\ IF c_start < Len(ReplaceCRLF(c_text))
       THEN /\ c_end' = ChunkEnd(c_start, c_max_chars, Len(ReplaceCRLF(c_text)))
            /\ c_pc' = "if"
       ELSE /\ c_pc' = "return"
            /\ c_end' = c_end
    /\ UNCHANGED <<c_text, c_max_chars, c_overlap, c_start, c_result>>
    /\ UNCHANGED <<engine_vars, pool_vars>>

\* lines 29-31: break at the end of the text, else move the window
ChunkIf ==
    /\ c_pc = "if"
    /\ IF c_end = Len(ReplaceCRLF(c_text))
       THEN /\ c_pc' = "return"
            /\ c_start' = c_start
       ELSE /\ c_start' = NextStart(c_end, c_overlap)
            /\ c_pc' = "while"
    /\ UNCHANGED <<c_text, c_max_chars, c_overlap, c_end, c_result>>
    /\ UNCHANGED <<engine_vars, pool_vars>>

\* line 32
ChunkReturn ==
    /\ c_pc = "return"
    /\ c_result' = chunk_text(c_text, c_max_chars, c_overlap)
    /\ c_pc' = "done"
    /\ UNCHANGED <<c_text, c_max_chars, c_overlap, c_start, c_end>>
    /\ UNCHANGED <<engine_vars, pool_vars>>

ChunkNext == ChunkWhile \/ ChunkIf \/ ChunkReturn

\* the interpreter keeps running a call that has a next step
ChunkSpec == ChunkInit /\ [][ChunkNext]_vars /\ WF_vars(ChunkNext)

(***************************************************************************)
(* The embedding gateway (rag.py 15-16, 48-69).                            *)
(***************************************************************************)
\* 1.0 in the fixed point the vectors are written in
Unit == 5

Isqrt(n) == CHOOSE r \in 0..n : r * r <= n /\ n < (r + 1) * (r + 1)

\* np.linalg.norm(v)
Norm(v) == Isqrt(v[1] * v[1] + v[2] * v[2])

\* line 16: v / (norm + 1e-10); the epsilon only matters for the zero
\* vector, which it maps to itself
_normalize(v) ==
    IF Norm(v) = 0 THEN <<0, 0>>
    ELSE <<(v[1] * Unit) \div Norm(v), (v[2] * Unit) \div Norm(v)>>

\* the vectors the external embedding model answers with, before
\* normalisation
RawVectors == << <<3, 4>>, <<4, 3>>, <<5, 0>>, <<0, 5>>, <<-3, 4>>, <<6, 8>>, <<0, 0>> >>

\* client.embeddings.create for one input: the external model is a fixed
\* function of the text
Provider(text) == RawVectors[(Len(text) % Len(RawVectors)) + 1]

\* lines 50-61: data holds one item per text the provider answered for
_embed_texts(texts, answered) ==
    IF texts = <<>> THEN <<>>
    ELSE [k \in 1..answered |-> _normalize(Provider(texts[k]))]

\* lines 64-69
_embed_query(query) == _normalize(Provider(query))

\* vec @ query_vec, in units of 1 / Unit^2
Dot(v, w) == v[1] * w[1] + v[2] * w[2]

(***************************************************************************)
(* _retrieve_from_pool (rag.py 103-120).                                   *)
(***************************************************************************)
\* line 117: {**doc, "score": score}, a new dict
WithScore(doc, score) ==
    [key \in DOMAIN doc \cup {"score"} |->
        IF key = "score" THEN score ELSE doc[key]]

\* the mutant: the filter is not applied
ScoreOneUnfiltered(scored, doc, vec, query_vec, filter_report_id) ==
    Append(scored, WithScore(doc, Dot(vec, query_vec)))

\* lines 114-117: one pass of the loop body
ScoreOne(scored, doc, vec, query_vec, filter_report_id) ==
    IF Truthy(filter_report_id) /\ Get(doc, "report_id") # filter_report_id
    THEN scored
    ELSE Append(scored, WithScore(doc, Dot(vec, query_vec)))

\* zip(docs, embeddings) has another pair after k pairs
ZipHasNext(docs, embeddings, k) == k < Len(docs) /\ k < Len(embeddings)

\* lines 113-117 from pair k + 1 on
RECURSIVE ScanFrom(_, _, _, _, _, _)
ScanFrom(docs, embeddings, k, scored, query_vec, filter_report_id) ==
    IF ~ZipHasNext(docs, embeddings, k) THEN scored
    ELSE ScanFrom(docs, embeddings, k + 1,
                  ScoreOne(scored, docs[k + 1], embeddings[k + 1],
                           query_vec, filter_report_id),
                  query_vec, filter_report_id)

\* r goes after every entry whose score is at least its own
InsertDesc(sorted, r) ==
    LET ahead == Cardinality({j \in 1..Len(sorted) : sorted[j].score >= r.score})
    IN  SubSeq(sorted, 1, ahead) \o <<r>> \o SubSeq(sorted, ahead + 1, Len(sorted))

RECURSIVE SortFrom(_, _, _)
SortFrom(scored, k, sorted) ==
    IF k > Len(scored) THEN sorted
    ELSE SortFrom(scored, k + 1, InsertDesc(sorted, scored[k]))

\* the mutant: the list is left in pool order
Unsorted(scored) == scored

\* line 119: list.sort(key=score, reverse=True), a stable sort
SortByScoreDesc(scored) == SortFrom(scored, 1, <<>>)

\* lines 119-120
Ranked(scored, top_k) == PySlice(SortByScoreDesc(scored), 0, top_k)

_retrieve_from_pool(query_vec, docs, embeddings, top_k, filter_report_id) ==
    Ranked(ScanFrom(docs, embeddings, 0, <<>>, query_vec, filter_report_id), top_k)

(***************************************************************************)
(* _retrieve_from_pool run on its own, on any pool.                        *)
(***************************************************************************)
\* uuid.uuid4() as a string: the n-th identifier handed out
Uuid(n) == "uuid-" \o ToString(n)

\* the mutant: the document is tagged with its own id, not the report's
NewDocOwnId(id, filename, chunk, report_id) ==
    [id |-> id, title |-> <<"Report: ", filename>>, text |-> chunk,
     report_id |-> id, filename |-> filename]

\* a document as ingest_report builds it (lines 89-95)
NewDoc(id, filename, chunk, report_id) ==
    [id |-> id, title |-> <<"Report: ", filename>>, text |-> chunk,
     report_id |-> report_id, filename |-> filename]

\* the k-th document of a pool: a catalogue document, which has no
\* report_id, or a chunk of report 1 or of report 2
PoolDoc(k, kind) ==
    IF kind = "base"
    THEN [id |-> Uuid(10 + k), title |-> "catalogue", text |-> <<"a">>]
    ELSE NewDoc(Uuid(10 + k), "report.pdf", <<"a">>, kind)

PoolKinds == {"base", Uuid(1), Uuid(2)}

PoolVectors == {<<3, 4>>, <<5, 0>>, <<-3, 4>>}

\* a pool of n documents, with a vector for each or for all but the last
PoolInit ==
    /\ \E n \in 0..MaxPool :
          /\ \E kinds \in [1..n -> PoolKinds] :
                p_docs = [k \in 1..n |-> PoolDoc(k, kinds[k])]
          /\ \E m \in {n, Max(n - 1, 0)} :
                p_embeddings \in [1..m -> PoolVectors]
    /\ p_query_vec \in {<<3, 4>>, <<5, 0>>}
    /\ p_top_k \in 0..MaxTopK
    /\ p_filter \in {None, "", Uuid(1), Uuid(2)}
    /\ p_pc = "call"
    /\ p_result = <<>>
    /\ EngineIdle
    /\ ChunkIdle

\* lines 111-120
PoolSearch ==
    /\ p_pc = "call"
    /\ p_result' = _retrieve_from_pool(p_query_vec, p_docs, p_embeddings,
                                       p_top_k, p_filter)
    /\ p_pc' = "done"
    /\ UNCHANGED <<p_docs, p_embeddings, p_query_vec, p_top_k, p_filter>>
    /\ UNCHANGED <<engine_vars, chunk_vars>>

PoolNext == PoolSearch

PoolSpec == PoolInit /\ [][PoolNext]_vars

\* C3: whatever the pool, the query vector, top_k >= 0 and the filter,
\* _retrieve_from_pool returns at most top_k results and their scores never
\* increase from one result to the next.
RankingHolds ==
    p_pc = "done" =>
        /\ Len(p_result) <= p_top_k
        /\ \A a, b \in 1..Len(p_result) :
              a < b => p_result[a].score >= p_result[b].score

\* a search that had more candidates than top_k and had to reorder them:
\* the document returned first stands later in the pool than the one
\* returned second, with a strictly higher score
RankingWitness ==
    /\ p_pc = "done"
    /\ p_top_k = 2
    /\ Len(p_result) = 2
    /\ Len(p_docs) > 2
    /\ p_result[1].id = p_docs[2].id
    /\ p_result[2].id = p_docs[1].id
    /\ p_result[1].score > p_result[2].score

(***************************************************************************)
(* The engine (rag.py 35-205) and its callers (main.py 33-83).             *)
(***************************************************************************)
\* knowledge_base.py 1-50; the texts are cut to their first words
KNOWLEDGE_CHUNKS ==
    << [id |-> "doc1_balcony_membranes",
        title |-> "Balcony Membrane Lifespan and Replacement",
        text |-> "In coastal British Columbia, exposed balcony membranes"],
       [id |-> "doc2_parkade_cracking",
        title |-> "Parkade Slab Cracking and Risk",
        text |-> "Hairline shrinkage cracks in parkade slabs are common"],
       [id |-> "doc3_rainscreen_bc",
        title |-> "Rainscreen Requirements in British Columbia",
        text |-> "Rainscreen wall assemblies became common practice"],
       [id |-> "doc4_maintenance_planning",
        title |-> "Maintenance Planning and Prioritization",
        text |-> "For strata corporations, maintenance and renewal projects"] >>

\* chunk_text's defaults (line 19), which ingest_report relies on (line 81)
DefaultMaxChars == 1200
DefaultOverlap == 200

\* the threads that run upload_report and query
IngestThreads == {"w1", "w2"}
QueryThreads == {"q1"}

\* a report of 3000 characters
LongText == [k \in 1..3000 |-> IF k <= 1500 THEN "a" ELSE "b"]

\* the texts handed to ingest_report
ReportTexts == {<<>>, <<" ", "LF">>, <<"a">>, <<"b", "b">>, LongText}

Filenames == {"inspection.pdf"}

\* the questions asked
Questions == {<<"w">>, <<"w", "h", "y">>}

IdleIngest ==
    [pc |-> "idle", filename |-> None, text |-> <<>>, report_id |-> None,
     chunks |-> <<>>, vectors |-> <<>>, i |-> 0, embed_calls |-> 0,
     docs_before |-> 0, embeddings_before |-> 0, result |-> None]

IdleAnswer ==
    [pc |-> "idle", report_id |-> None, q_vec |-> <<0, 0>>, k |-> 0,
     scored |-> <<>>, report_results |-> <<>>, base_results |-> <<>>,
     merged |-> <<>>, sources |-> <<>>]

\* rag.py 36-46 and main.py 27-30: the engine once constructed
Init ==
    /\ base_docs = KNOWLEDGE_CHUNKS
    /\ base_embeddings =
          _embed_texts([k \in 1..Len(KNOWLEDGE_CHUNKS) |-> KNOWLEDGE_CHUNKS[k].text],
                       Len(KNOWLEDGE_CHUNKS))
    /\ report_docs = <<>>
    /\ report_embeddings = <<>>
    /\ uuid_next = 0
    /\ n_uploads = 0
    /\ ing = [t \in IngestThreads |-> IdleIngest]
    /\ ans = [t \in QueryThreads |-> IdleAnswer]
    /\ failed_ids = {}
    /\ ChunkIdle
    /\ PoolIdle

\* no call is running
Quiet ==
    /\ \A t \in IngestThreads : ing[t].pc = "idle"
    /\ \A t \in QueryThreads : ans[t].pc = "idle"

\* the report ids of the documents in the pool and of the failed calls
IssuedIds == {d.report_id : d \in {report_docs[k] : k \in 1..Len(report_docs)}}
                \cup failed_ids

---------------------------------------------------------------------------
\* ingest_report, lines 80-84: a fresh report_id, the chunks, and the early
\* return when there is no chunk
IngestCall(t, filename, text) ==
    /\ ing[t].pc = "idle"
    /\ n_uploads < MaxUploads
    /\ n_uploads' = n_uploads + 1
    /\ uuid_next' = uuid_next + 1
    /\ LET chunks == chunk_text(text, DefaultMaxChars, DefaultOverlap)
           call   == [IdleIngest EXCEPT
                        !.filename = filename, !.text = text,
                        !.report_id = Uuid(uuid_next + 1), !.chunks = chunks,
                        !.docs_before = Len(report_docs),
                        !.embeddings_before = Len(report_embeddings)]
       IN  ing' = [ing EXCEPT ![t] =
                     IF chunks = <<>>
                     THEN [call EXCEPT !.pc = "returned", !.result = call.report_id]
                     ELSE [call EXCEPT !.pc = "embed"]]
    /\ UNCHANGED <<base_docs, base_embeddings, report_docs, report_embeddings,
                   ans, failed_ids>>
    /\ UNCHANGED <<chunk_vars, pool_vars>>

\* the mutant: the documents are stored before the vectors are asked for,
\* so a failure of the provider leaves them in the pool
IngestEmbedStoreFirst(t) ==
    /\ ing[t].pc = "embed"
    /\ LET n == Len(ing[t].chunks)
           docs == [k \in 1..n |->
                      NewDoc(Uuid(uuid_next + k), ing[t].filename,
                             ing[t].chunks[k], ing[t].report_id)]
       IN  \E outcome \in {"ok", "error"} :
              IF outcome = "error"
              THEN /\ ing' = [ing EXCEPT ![t].pc = "raised",
                                         ![t].embed_calls = @ + 1]
                   /\ failed_ids' = failed_ids \cup {ing[t].report_id}
                   /\ report_docs' = report_docs \o docs
                   /\ uuid_next' = uuid_next + n
                   /\ UNCHANGED report_embeddings
              ELSE /\ ing' = [ing EXCEPT ![t].pc = "returned",
                                         ![t].embed_calls = @ + 1,
                                         ![t].result = ing[t].report_id,
                                         ![t].vectors = _embed_texts(ing[t].chunks, n)]
                   /\ report_docs' = report_docs \o docs
                   /\ report_embeddings' =
                         report_embeddings \o _embed_texts(ing[t].chunks, n)
                   /\ uuid_next' = uuid_next + n
                   /\ UNCHANGED failed_ids
    /\ UNCHANGED <<base_docs, base_embeddings, n_uploads, ans>>
    /\ UNCHANGED <<chunk_vars, pool_vars>>

\* line 86: the one batch call; the provider answers for every chunk, for
\* all but the last, or fails, and a failure leaves ingest_report at once
IngestEmbed(t) ==
    /\ ing[t].pc = "embed"
    /\ \E outcome \in {"ok", "short", "error"} :
          IF outcome = "error"
          THEN /\ ing' = [ing EXCEPT ![t].pc = "raised",
                                     ![t].embed_calls = @ + 1]
               /\ failed_ids' = failed_ids \cup {ing[t].report_id}
          ELSE /\ ing' = [ing EXCEPT
                            ![t].pc = "loop",
                            ![t].embed_calls = @ + 1,
                            ![t].vectors =
                                _embed_texts(ing[t].chunks,
                                             IF outcome = "ok"
                                             THEN Len(ing[t].chunks)
                                             ELSE Len(ing[t].chunks) - 1)]
               /\ UNCHANGED failed_ids
    /\ UNCHANGED <<base_docs, base_embeddings, report_docs, report_embeddings,
                   uuid_next, n_uploads, ans>>
    /\ UNCHANGED <<chunk_vars, pool_vars>>

\* the mutant: the document goes to the front of the pool
InsertDocFirst(docs, doc) == <<doc>> \o docs

\* line 96
AppendDoc(docs, doc) == Append(docs, doc)

\* lines 88-96: the next pair of zip(chunks, vectors), its document, and
\* the append of the document; line 99 when the pairs are used up
IngestLoop(t) ==
    /\ ing[t].pc = "loop"
    /\ IF ZipHasNext(ing[t].chunks, ing[t].vectors, ing[t].i)
       THEN /\ uuid_next' = uuid_next + 1
            /\ report_docs' =
                  AppendDoc(report_docs,
                            NewDoc(Uuid(uuid_next + 1), ing[t].filename,
                                   ing[t].chunks[ing[t].i + 1], ing[t].report_id))
            /\ ing' = [ing EXCEPT ![t].pc = "append_vec"]
       ELSE /\ ing' = [ing EXCEPT ![t].pc = "returned",
                                  ![t].result = ing[t].report_id]
            /\ UNCHANGED <<uuid_next, report_docs>>
    /\ UNCHANGED <<base_docs, base_embeddings, report_embeddings, n_uploads,
                   ans, failed_ids>>
    /\ UNCHANGED <<chunk_vars, pool_vars>>

\* line 97
IngestAppendVec(t) ==
    /\ ing[t].pc = "append_vec"
    /\ report_embeddings' = Append(report_embeddings, ing[t].vectors[ing[t].i + 1])
    /\ ing' = [ing EXCEPT ![t].pc = "loop", ![t].i = @ + 1]
    /\ UNCHANGED <<base_docs, base_embeddings, report_docs, uuid_next, n_uploads,
                   ans, failed_ids>>
    /\ UNCHANGED <<chunk_vars, pool_vars>>

\* line 99 and main.py 75-83: the report id goes back to upload_report, an
\* exception reaches its except clause; the call is over
IngestReturn(t) ==
    /\ ing[t].pc \in {"returned", "raised"}
    /\ ing' = [ing EXCEPT ![t] = IdleIngest]
    /\ UNCHANGED <<base_docs, base_embeddings, report_docs, report_embeddings,
                   uuid_next, n_uploads, ans, failed_ids>>
    /\ UNCHANGED <<chunk_vars, pool_vars>>

---------------------------------------------------------------------------
\* the report ids a question may name: none, the empty string, one that
\* ingest_report handed out, or one with no document in the pool
RequestIds == {None, "", "no-such-report"} \cup IssuedIds

\* answer, line 128 and the test of line 132; a failure of the embedding
\* call leaves answer at once
AnswerCall(t, question, report_id) ==
    /\ ans[t].pc = "idle"
    /\ \E outcome \in {"ok", "error"} :
          ans' = [ans EXCEPT ![t] =
                    IF outcome = "error"
                    THEN [IdleAnswer EXCEPT !.pc = "raised", !.report_id = report_id]
                    ELSE [IdleAnswer EXCEPT
                            !.pc = IF Truthy(report_id) THEN "scan_report"
                                                        ELSE "scan_base",
                            !.report_id = report_id,
                            !.q_vec = _embed_query(question)]]
    /\ UNCHANGED <<base_docs, base_embeddings, report_docs, report_embeddings,
                   uuid_next, n_uploads, ing, failed_ids>>
    /\ UNCHANGED <<chunk_vars, pool_vars>>

\* lines 133-139: one pair of zip(report_docs, report_embeddings), read
\* from the lists as they are now; lines 119-120 when the pairs are used up
AnswerScanReport(t) ==
    /\ ans[t].pc = "scan_report"
    /\ IF ZipHasNext(report_docs, report_embeddings, ans[t].k)
       THEN ans' = [ans EXCEPT
                      ![t].k = @ + 1,
                      ![t].scored =
                          ScoreOne(@, report_docs[ans[t].k + 1],
                                   report_embeddings[ans[t].k + 1],
                                   ans[t].q_vec, ans[t].report_id)]
       ELSE ans' = [ans EXCEPT
                      ![t].pc = "scan_base",
                      ![t].k = 0,
                      ![t].scored = <<>>,
                      ![t].report_results = Ranked(ans[t].scored, 4)]
    /\ UNCHANGED <<base_docs, base_embeddings, report_docs, report_embeddings,
                   uuid_next, n_uploads, ing, failed_ids>>
    /\ UNCHANGED <<chunk_vars, pool_vars>>

\* the mutant: one list ranked by score
MergeByScore(report_results, base_results) ==
    SortByScoreDesc(report_results \o base_results)

\* line 149
Merge(report_results, base_results) == report_results \o base_results

\* lines 163-166
SourceOf(r) ==
    IF "filename" \in DOMAIN r
    THEN <<Get(r, "filename"), " (report_id=", Get(r, "report_id"), ")">>
    ELSE <<Get(r, "title"), " (id=", Get(r, "id"), ")">>

\* lines 142-149: one pair of zip(base_docs, base_embeddings); the ranking
\* and the merge when the pairs are used up
AnswerScanBase(t) ==
    /\ ans[t].pc = "scan_base"
    /\ IF ZipHasNext(base_docs, base_embeddings, ans[t].k)
       THEN ans' = [ans EXCEPT
                      ![t].k = @ + 1,
                      ![t].scored =
                          ScoreOne(@, base_docs[ans[t].k + 1],
                                   base_embeddings[ans[t].k + 1],
                                   ans[t].q_vec, None)]
       ELSE ans' = [ans EXCEPT
                      ![t].pc = "generate",
                      ![t].k = 0,
                      ![t].scored = <<>>,
                      ![t].base_results = Ranked(ans[t].scored, 2),
                      ![t].merged = Merge(ans[t].report_results,
                                          Ranked(ans[t].scored, 2))]
    /\ UNCHANGED <<base_docs, base_embeddings, report_docs, report_embeddings,
                   uuid_next, n_uploads, ing, failed_ids>>
    /\ UNCHANGED <<chunk_vars, pool_vars>>

\* lines 151-205: the sources, and the chat completion, which answers or
\* fails
AnswerGenerate(t) ==
    /\ ans[t].pc = "generate"
    /\ \E outcome \in {"ok", "error"} :
          ans' = [ans EXCEPT
                    ![t].pc = IF outcome = "ok" THEN "returned" ELSE "raised",
                    ![t].sources = [k \in 1..Len(ans[t].merged) |->
                                       SourceOf(ans[t].merged[k])]]
    /\ UNCHANGED <<base_docs, base_embeddings, report_docs, report_embeddings,
                   uuid_next, n_uploads, ing, failed_ids>>
    /\ UNCHANGED <<chunk_vars, pool_vars>>

\* main.py 36-41: the answer and its sources go back; the call is over
AnswerReturn(t) ==
    /\ ans[t].pc \in {"returned", "raised"}
    /\ ans' = [ans EXCEPT ![t] = IdleAnswer]
    /\ UNCHANGED <<base_docs, base_embeddings, report_docs, report_embeddings,
                   uuid_next, n_uploads, ing, failed_ids>>
    /\ UNCHANGED <<chunk_vars, pool_vars>>

---------------------------------------------------------------------------
\* the calls run one after another: a call starts when no call is running
Next ==
    \/ \E t \in IngestThreads, f \in Filenames, text \in ReportTexts :
          Quiet /\ IngestCall(t, f, text)
    \/ \E t \in IngestThreads : IngestEmbed(t)
    \/ \E t \in IngestThreads : IngestLoop(t)
    \/ \E t \in IngestThreads : IngestAppendVec(t)
    \/ \E t \in IngestThreads : IngestReturn(t)
    \/ \E t \in QueryThreads, q \in Questions, r \in RequestIds :
          Quiet /\ AnswerCall(t, q, r)
    \/ \E t \in QueryThreads : AnswerScanReport(t)
    \/ \E t \in QueryThreads : AnswerScanBase(t)
    \/ \E t \in QueryThreads : AnswerGenerate(t)
    \/ \E t \in QueryThreads : AnswerReturn(t)

Spec == Init /\ [][Next]_vars

\* the one-chunk reports and the question of the interleaved runs
ShortTexts == {<<"a">>, <<"b", "b">>}
OneQuestion == {<<"w">>}

\* the calls run on their threads with no lock between them: the steps of
\* running calls interleave
NextConc ==
    \/ \E t \in IngestThreads, f \in Filenames, text \in ShortTexts :
          IngestCall(t, f, text)
    \/ \E t \in IngestThreads : IngestEmbed(t)
    \/ \E t \in IngestThreads : IngestLoop(t)
    \/ \E t \in IngestThreads : IngestAppendVec(t)
    \/ \E t \in IngestThreads : IngestReturn(t)
    \/ \E t \in QueryThreads, q \in OneQuestion, r \in RequestIds :
          AnswerCall(t, q, r)
    \/ \E t \in QueryThreads : AnswerScanReport(t)
    \/ \E t \in QueryThreads : AnswerScanBase(t)
    \/ \E t \in QueryThreads : AnswerGenerate(t)
    \/ \E t \in QueryThreads : AnswerReturn(t)

SpecConc == Init /\ [][NextConc]_vars

(***************************************************************************)
(* Claims about the engine.                                                *)
(***************************************************************************)
IsReportResult(r) == "report_id" \in DOMAIN r

Elems(seq) == {seq[k] : k \in 1..Len(seq)}

NonIncreasing(results) ==
    \A a, b \in 1..Len(results) : a < b => results[a].score >= results[b].score

\* C1: the search of the report pool that answer(question, report_id = A)
\* makes never keeps or returns a document whose report_id is another
\* report's or is unset.
PoolIsolation ==
    \A t \in QueryThreads :
        /\ ans[t].pc = "scan_report" =>
              \A r \in Elems(ans[t].scored) : Get(r, "report_id") = ans[t].report_id
        /\ \A r \in Elems(ans[t].report_results) :
              /\ Get(r, "report_id") = ans[t].report_id
              /\ Get(r, "report_id") # None

\* an answer scoped to one report got results while the pool also held
\* documents of another report
PoolIsolationWitness ==
    \E t \in QueryThreads :
        /\ ans[t].pc = "generate"
        /\ ans[t].report_results # <<>>
        /\ \E d \in Elems(report_docs) : d.report_id # ans[t].report_id

\* C2: the merged sequence of an answer call is the ranked report results
\* (at most 4, none when no report_id is given) followed by the ranked base
\* results (at most 2): every report result stands before every base
\* result, whatever the scores.
MergeOrder ==
    \A t \in QueryThreads :
        ans[t].pc \in {"generate", "returned"} =>
            LET m == ans[t].merged
                n == Cardinality({k \in 1..Len(m) : IsReportResult(m[k])})
            IN  /\ n <= 4
                /\ Len(m) - n <= 2
                /\ \A k \in 1..n : IsReportResult(m[k])
                /\ ~Truthy(ans[t].report_id) => n = 0
                /\ NonIncreasing(SubSeq(m, 1, n))
                /\ NonIncreasing(SubSeq(m, n + 1, Len(m)))
                /\ Truthy(ans[t].report_id) =>
                      SubSeq(m, 1, n) =
                          _retrieve_from_pool(ans[t].q_vec, report_docs,
                                              report_embeddings, 4, ans[t].report_id)
                /\ SubSeq(m, n + 1, Len(m)) =
                      _retrieve_from_pool(ans[t].q_vec, base_docs,
                                          base_embeddings, 2, None)

\* a merged sequence in which a report result stands before a base result
\* of strictly higher score
MergeOrderWitness ==
    \E t \in QueryThreads :
        /\ ans[t].pc = "generate"
        /\ \E a, b \in 1..Len(ans[t].merged) :
              /\ a < b
              /\ IsReportResult(ans[t].merged[a])
              /\ ~IsReportResult(ans[t].merged[b])
              /\ ans[t].merged[a].score < ans[t].merged[b].score

AllVisible(text) == \A k \in 1..Len(text) : text[k] \notin Whitespace

\* C4: when ingest_report returns, the provider having answered for every
\* chunk, the report pool has grown by the number of chunks chunk_text
\* yields for the text (none for an empty text; for a text of L visible
\* characters one when 0 < L <= 1200 and ceil((L - 200) / 1000) beyond),
\* and every document added carries the report_id the call returns.
IngestEffect ==
    \A t \in IngestThreads :
        (ing[t].pc = "returned" /\ Len(ing[t].vectors) = Len(ing[t].chunks)) =>
            LET n == Len(chunk_text(ing[t].text, DefaultMaxChars, DefaultOverlap))
                L == Len(ing[t].text)
            IN  /\ Len(report_docs) = ing[t].docs_before + n
                /\ Len(report_embeddings) = ing[t].embeddings_before + n
                /\ Truthy(ing[t].result)
                /\ \A k \in (ing[t].docs_before + 1)..Len(report_docs) :
                      report_docs[k].report_id = ing[t].result
                /\ \A k \in 1..ing[t].docs_before :
                      report_docs[k].report_id # ing[t].result
                /\ L = 0 => n = 0
                /\ AllVisible(ing[t].text) =>
                      n = IF L = 0 THEN 0
                          ELSE IF L <= DefaultMaxChars THEN 1
                          ELSE CeilDiv(L - DefaultOverlap,
                                       DefaultMaxChars - DefaultOverlap)

\* the ingestion of a 3000-character report into a pool that already held
\* documents has returned, and the pool is three documents longer
IngestEffectWitness ==
    \E t \in IngestThreads :
        /\ ing[t].pc = "returned"
        /\ Len(ing[t].text) = 3000
        /\ Len(ing[t].vectors) = Len(ing[t].chunks)
        /\ ing[t].docs_before > 0
        /\ Len(report_docs) = ing[t].docs_before + 3

IsPrefix(s, t) == Len(s) <= Len(t) /\ SubSeq(t, 1, Len(s)) = s

\* C8: no step changes the base pool, every step leaves the report pool
\* as it was or longer with the old content as its prefix, and a step of
\* an answer call leaves the report pool unchanged.
AppendOnly ==
    [][/\ base_docs' = base_docs
       /\ base_embeddings' = base_embeddings
       /\ IsPrefix(report_docs, report_docs')
       /\ IsPrefix(report_embeddings, report_embeddings')
       /\ ans' # ans => /\ report_docs' = report_docs
                        /\ report_embeddings' = report_embeddings]_vars

\* an answer call has scored and returned documents of a pool that two
\* ingestions filled
AppendOnlyWitness ==
    \E t \in QueryThreads :
        /\ ans[t].pc = "returned"
        /\ ans[t].report_results # <<>>
        /\ Cardinality({d.report_id : d \in Elems(report_docs)}) = 2
        /\ base_docs = KNOWLEDGE_CHUNKS

\* C10: when the batch embedding call of ingest_report fails, the call
\* ends with the failure after that one call to the provider, the report
\* pool is as long as it was when the call began, no document of the pool
\* carries the failed report's id, and no answer call holds such a document.
IngestAllOrNothing ==
    /\ \A t \in IngestThreads :
          ing[t].pc = "raised" =>
              /\ ing[t].embed_calls = 1
              /\ ing[t].result = None
              /\ Len(report_docs) = ing[t].docs_before
              /\ Len(report_embeddings) = ing[t].embeddings_before
    /\ \A d \in Elems(report_docs) : d.report_id \notin failed_ids
    /\ \A t \in QueryThreads :
          \A r \in Elems(ans[t].scored) \cup Elems(ans[t].merged) :
              Get(r, "report_id") \notin failed_ids

\* an ingestion into a pool that already held documents has failed at the
\* embedding call
IngestAllOrNothingWitness ==
    \E t \in IngestThreads :
        /\ ing[t].pc = "raised"
        /\ ing[t].docs_before > 0
        /\ ing[t].report_id \in failed_ids

\* C5: in every state, also in the middle of an ingest_report and while an
\* answer call runs beside it, each pool's document list and embedding
\* list have the same length.
ParallelArrays ==
    /\ Len(base_docs) = Len(base_embeddings)
    /\ Len(report_docs) = Len(report_embeddings)

\* C9: under any interleaving of ingest_report calls with each other and
\* with answer calls, every document of the report pool that has a vector
\* at its index has there the vector of its own text, and every score an
\* answer call computed for a report document is that of its own vector.
IndexAligned ==
    /\ \A k \in 1..Min(Len(report_docs), Len(report_embeddings)) :
          report_embeddings[k] = _normalize(Provider(report_docs[k].text))
    /\ \A t \in QueryThreads :
          ans[t].pc = "scan_report" =>
              \A r \in Elems(ans[t].scored) :
                  r.score = Dot(_normalize(Provider(r.text)), ans[t].q_vec)

(***************************************************************************)
(* Claims about chunk_text.                                                *)
(***************************************************************************)
\* C6: chunk_text terminates for every text and every choice of max_chars
\* and overlap, overlap >= max_chars included: every call reaches its
\* return.
ChunkTerminates == <>(c_pc = "done")

\* C7 as stated: with 0 <= overlap < max_chars and L the length of the
\* text, chunk_text returns exactly one chunk, the trimmed input, when
\* L < max_chars, and exactly ceil((L - overlap) / (max_chars - overlap))
\* chunks when L > max_chars.
ChunkCountAsStated ==
    (c_pc = "done" /\ c_overlap < c_max_chars) =>
        LET L == Len(c_text)
        IN  /\ L < c_max_chars => c_result = <<Strip(c_text)>>
            /\ L > c_max_chars =>
                 Len(c_result) = CeilDiv(L - c_overlap, c_max_chars - c_overlap)

\* window number i (from 0) of a text t in closed form: it starts
\* i * (max_chars - overlap) characters in and is max_chars long, cut at
\* the end of the text
ClosedWindow(t, i, max_chars, overlap) ==
    LET from == i * (max_chars - overlap)
    IN  SubSeq(t, from + 1, Min(from + max_chars, Len(t)))

\* C7 amended: with 0 <= overlap < max_chars, t the text after CRLF -> LF
\* replacement and L the length of t: when L < max_chars the result is the
\* one chunk strip(t), or no chunk when t is empty or all whitespace; when
\* L > max_chars exactly n = ceil((L - overlap) / (max_chars - overlap))
\* windows are cut and the result is their trimmed texts in order with the
\* empty ones dropped, so at most n chunks, and exactly n when every window
\* holds a character that is not whitespace.
ChunkCountAmended ==
    (c_pc = "done" /\ c_overlap < c_max_chars) =>
        LET t == ReplaceCRLF(c_text)
            L == Len(t)
            n == CeilDiv(L - c_overlap, c_max_chars - c_overlap)
            trimmed == [i \in 1..n |->
                           Strip(ClosedWindow(t, i - 1, c_max_chars, c_overlap))]
        IN  /\ L < c_max_chars =>
                 c_result = IF Strip(t) = <<>> THEN <<>> ELSE <<Strip(t)>>
            /\ L > c_max_chars =>
                 /\ c_result = SelectSeq(trimmed, NonEmpty)
                 /\ Len(c_result) <= n
                 /\ (\A i \in 1..n : trimmed[i] # <<>>) => Len(c_result) = n

\* a call with overlapping windows that returned three or more chunks, one
\* per window
ChunkCountWitness ==
    /\ c_pc = "done"
    /\ 0 < c_overlap /\ c_overlap < c_max_chars
    /\ Len(ReplaceCRLF(c_text)) > c_max_chars
    /\ Len(c_result) >= 3
    /\ Len(c_result) = CeilDiv(Len(ReplaceCRLF(c_text)) - c_overlap,
                               c_max_chars - c_overlap)

====
